---- MODULE Spec2Model ----
(***************************************************************************)
(* RenderEngine of imgui-dx11 (src/imgui-dx11/src/render_engine.rs): the   *)
(* per-frame protocol of render() and the present() entry point, as a      *)
(* state machine over the device context's pipeline state.                 *)
(*                                                                         *)
(* f32 values are kept in half units (the integer 2*v stands for v), so    *)
(* that a fractional coordinate such as -1.5 exists and the cast to i32    *)
(* (truncation toward zero) differs from a floor.                          *)
(***************************************************************************)
EXTENDS Integers, Sequences, FiniteSets, TLC

\* ------------------------------------------------------------- bounds
\* draw lists in one frame
MaxLists == 2
\* draw lists plus draw commands the toolkit produces over one run (all
\* frames together)
MaxItems == 4
\* render calls in one run
MaxRenders == 3

\* ---------------------------------------------------------- constants
I32Max == 2147483647

VARIABLES
    pc,            \* position inside render, "idle" between calls
    dev,           \* pipeline state of the ID3D11DeviceContext
    state_backup,  \* the StateBackup local of render
    window_rect,   \* what get_window_rect gave the render in progress
    display_size,  \* ctx.io().display_size
    draw_data,     \* the DrawData of the frame under render
    li, ci,        \* draw list and command the loops of render stand at
    vtx_offset,
    idx_offset,
    result,        \* what the last entry point returned
    logged,        \* the last entry point wrote a log::error! record
    calls,         \* calls made so far by the render in progress
    dev0,          \* dev at the entry of the last render
    nBackup,       \* StateBackup::backup calls so far, one per render
    nRestore,      \* StateBackup::restore calls of the render in progress
    itemsLeft      \* lists and commands the toolkit may still produce

vars == <<pc, dev, state_backup, window_rect, display_size, draw_data, li, ci,
          vtx_offset, idx_offset, result, logged, calls, dev0, nBackup,
          nRestore, itemsLeft>>

\* --------------------------------------------------------- conversions
\* i32 as f32 (exact for the magnitudes used), in half units
F32(i) == 2 * i

\* f32 as i32: truncation toward zero, saturating at the i32 range
AsI32(v) ==
    LET t == IF v >= 0 THEN v \div 2 ELSE -((-v) \div 2)
    IN  IF t > I32Max THEN I32Max
        ELSE IF t < -I32Max - 1 THEN -I32Max - 1
        ELSE t

\* The usize -> u32 / i32 casts of the DrawIndexed arguments leave every
\* count below 2^31 as it is; the counts of the model stay far below.

Rect(l, t, r, b) == [left |-> l, top |-> t, right |-> r, bottom |-> b]

None == [none |-> TRUE]

\* ------------------------------------------------------- device state
\* what the host left on the device context before the overlay runs
HostState ==
    [viewport      |-> Rect(0, 0, 1920, 1080),
     render_target |-> "host",
     pipeline      |-> "host",
     scissor       |-> Rect(0, 0, 1920, 1080),
     vertex_buffer |-> "host",
     index_buffer  |-> "host",
     topology      |-> "host",
     vs_cbuffer    |-> "host",
     ps_srv        |-> "host"]

\* what a raw callback may do to the device context
CallbackEffects == {"none", "clobber"}

CallbackApply(d, e) ==
    IF e = "clobber"
    THEN [d EXCEPT !.scissor = Rect(7, 7, 7, 7), !.ps_srv = "callback",
                   !.pipeline = "callback", !.viewport = Rect(7, 7, 7, 7)]
    ELSE d

\* --------------------------------------------------------- collaborators
\* StateBackup::backup / StateBackup::restore
StateBackup_backup(d) == d
StateBackup_restore(snapshot, d) == snapshot

\* DeviceAndSwapChain::get_window_rect: None, or the client rectangle
\* (800 x 600, 0 x 0, 800 x 0)
WindowRects ==
    {Rect(100, 50, 900, 650), Rect(100, 50, 100, 50), Rect(100, 50, 900, 50)}
get_window_rect == {None} \cup WindowRects

set_viewport(d, rect) == [d EXCEPT !.viewport = rect]
set_render_target(d) == [d EXCEPT !.render_target = "overlay"]
\* DeviceAndSwapChain::setup_state(draw_data): viewport of the frame's size
\* and the overlay's render target, without querying the window
setup_state(d, dd) ==
    set_render_target(
        set_viewport(d, Rect(0, 0, AsI32(dd.display_size[1]),
                                   AsI32(dd.display_size[2]))))
set_shader_resources(d, view) == [d EXCEPT !.ps_srv = view]
\* ShaderProgram::set_state
ShaderProgram_set_state(d) == [d EXCEPT !.pipeline = "overlay"]
\* Texture::tex_view
tex_view == "font"

\* ------------------------------------------------------------- inputs
\* clip rectangles [0, 0, 100, 100] and [10.5, -3.5, 50.5, 40.5]
ClipA == <<0, 0, 200, 200>>
ClipB == <<21, -7, 101, 81>>
\* display positions [0, 0] and [1.5, 20]
Positions == {<<0, 0>>, <<3, 40>>}

Elements(count, clip, tex) ==
    [kind |-> "Elements", count |-> count, clip_rect |-> clip,
     texture_id |-> tex]
ResetRenderState == [kind |-> "ResetRenderState"]
RawCallbackCmd == [kind |-> "RawCallback"]

DrawCmds ==
    {Elements(6, ClipA, "font"), Elements(3, ClipB, "other"),
     ResetRenderState, RawCallbackCmd}

\* (vertex count, index count) of a draw list
ListShapes == {<<4, 6>>, <<3, 0>>}

CmdSeqs(n) == UNION {[1..k -> DrawCmds] : k \in 0..n}

DrawLists(n) ==
    {[vtx_len |-> s[1], idx_len |-> s[2], cmds |-> c] :
        s \in ListShapes, c \in CmdSeqs(n)}

RECURSIVE ListSeqs(_, _)
\* sequences of exactly k draw lists that hold, lists and commands
\* together, at most n items
ListSeqs(k, n) ==
    IF k = 0 THEN {<<>>}
    ELSE IF n < k THEN {}
    ELSE UNION {{<<l>> \o rest :
                    rest \in ListSeqs(k - 1, n - 1 - Len(l.cmds))} :
                        l \in DrawLists(n - k)}

RECURSIVE ItemCount(_)
ItemCount(lists) ==
    IF lists = <<>> THEN 0
    ELSE 1 + Len(Head(lists).cmds) + ItemCount(Tail(lists))

\* ui.render(): the display size is that of the io, the position and the
\* draw lists are the toolkit's
Frames(size, n) ==
    {[display_pos |-> p, display_size |-> size, lists |-> ls] :
        p \in Positions, ls \in UNION {ListSeqs(k, n) : k \in 0..MaxLists}}

\* ------------------------------------------------------------ helpers
Call(op, args) == [op |-> op, args |-> args]

RECURSIVE SumVtx(_, _)
SumVtx(lists, k) ==
    IF k = 0 THEN 0 ELSE lists[k].vtx_len + SumVtx(lists, k - 1)

RECURSIVE SumIdx(_, _)
SumIdx(lists, k) ==
    IF k = 0 THEN 0 ELSE lists[k].idx_len + SumIdx(lists, k - 1)

\* ------------------------------------------------------------- render
Init ==
    /\ pc = "idle"
    /\ dev = HostState
    /\ state_backup = None
    /\ window_rect = None
    /\ display_size = <<-2, -2>>   \* -1 x -1 until a window rectangle is seen
    /\ draw_data = None
    /\ li = 0 /\ ci = 0
    /\ vtx_offset = 0 /\ idx_offset = 0
    /\ result = "none"
    /\ logged = FALSE
    /\ calls = <<>>
    /\ dev0 = HostState
    /\ nBackup = 0 /\ nRestore = 0
    /\ itemsLeft = MaxItems

\* faulty variant: the shader state is installed before the snapshot is taken
BackupAfterSetState ==
    /\ pc = "idle"
    /\ nBackup < MaxRenders
    /\ dev' = ShaderProgram_set_state(dev)
    /\ state_backup' = StateBackup_backup(dev')
    /\ dev0' = dev
    /\ nBackup' = nBackup + 1
    /\ calls' = <<Call("set_state", <<>>), Call("backup", <<>>)>>
    /\ result' = "running"
    /\ logged' = FALSE
    /\ nRestore' = 0
    /\ pc' = "rect"
    /\ UNCHANGED <<display_size, draw_data, li, ci, vtx_offset, idx_offset,
                   itemsLeft, window_rect>>

Backup ==
    /\ pc = "idle"
    /\ nBackup < MaxRenders
    /\ state_backup' = StateBackup_backup(dev)
    /\ dev0' = dev
    /\ nBackup' = nBackup + 1
    /\ calls' = <<Call("backup", <<>>)>>
    /\ result' = "running"
    /\ logged' = FALSE
    /\ nRestore' = 0
    /\ pc' = "rect"
    /\ UNCHANGED <<dev, display_size, draw_data, li, ci, vtx_offset,
                   idx_offset, itemsLeft, window_rect>>

\* faulty variant: the rectangle keeps its origin
NormalizedKeepsOrigin(r) ==
    Rect(r.left, r.top, r.right - r.left, r.bottom - r.top)

\* rect.right -= rect.left; rect.bottom -= rect.top; rect.top = 0;
\* rect.left = 0
Normalized(r) == Rect(0, 0, r.right - r.left, r.bottom - r.top)

\* faulty variant: without a window rectangle the display size is zeroed
ReconfigureZeroOnNone ==
    /\ pc = "rect"
    /\ \E r \in get_window_rect :
        /\ window_rect' = r
        /\ IF r = None
           THEN /\ display_size' = <<0, 0>>
                /\ calls' = Append(calls, Call("get_window_rect", <<>>))
                /\ UNCHANGED dev
           ELSE LET rect == Normalized(r) IN
                /\ display_size' =
                       <<F32(r.right - r.left), F32(r.bottom - r.top)>>
                /\ dev' = set_render_target(set_viewport(dev, rect))
                /\ calls' = calls \o
                       <<Call("get_window_rect", <<>>),
                         Call("set_viewport",
                              <<rect.left, rect.top, rect.right, rect.bottom>>),
                         Call("set_render_target", <<>>)>>
    /\ pc' = "shader"
    /\ UNCHANGED <<state_backup, draw_data, li, ci, vtx_offset, idx_offset,
                   result, logged, dev0, nBackup, nRestore, itemsLeft>>

Reconfigure ==
    /\ pc = "rect"
    /\ \E r \in get_window_rect :
        /\ window_rect' = r
        /\ IF r = None
           THEN /\ calls' = Append(calls, Call("get_window_rect", <<>>))
                /\ UNCHANGED <<display_size, dev>>
           ELSE LET rect == Normalized(r) IN
                /\ display_size' =
                       <<F32(r.right - r.left), F32(r.bottom - r.top)>>
                /\ dev' = set_render_target(set_viewport(dev, rect))
                /\ calls' = calls \o
                       <<Call("get_window_rect", <<>>),
                         Call("set_viewport",
                              <<rect.left, rect.top, rect.right, rect.bottom>>),
                         Call("set_render_target", <<>>)>>
    /\ pc' = "shader"
    /\ UNCHANGED <<state_backup, draw_data, li, ci, vtx_offset, idx_offset,
                   result, logged, dev0, nBackup, nRestore, itemsLeft>>

SetShaderState ==
    /\ pc = "shader"
    /\ dev' = ShaderProgram_set_state(dev)
    /\ calls' = Append(calls, Call("set_state", <<>>))
    /\ pc' = "frame"
    /\ UNCHANGED <<state_backup, display_size, draw_data, li, ci, vtx_offset,
                   idx_offset, result, logged, dev0, nBackup, window_rect,
                   nRestore, itemsLeft>>

\* faulty variant: the frame is rendered without the callback being called
FrameCallsNoCallback == <<Call("frame", <<>>), Call("ui_render", <<>>)>>

\* let mut ui = self.ctx.frame(); f(&mut ui); let draw_data = ui.render()
FrameCalls ==
    <<Call("frame", <<>>), Call("f", <<>>), Call("ui_render", <<>>)>>

BuildFrame ==
    /\ pc = "frame"
    /\ \E dd \in Frames(display_size, itemsLeft) :
        /\ draw_data' = dd
        /\ itemsLeft' = itemsLeft - ItemCount(dd.lists)
    /\ calls' = calls \o FrameCalls
    /\ pc' = "validate"
    /\ UNCHANGED <<dev, state_backup, display_size, li, ci, vtx_offset,
                   idx_offset, result, logged, dev0, nBackup, window_rect,
                   nRestore>>

\* faulty variants of the size check: a strict comparison; a disjunction
RejectedStrict(width, height) == width < 0 /\ height < 0
RejectedEither(width, height) == width <= 0 \/ height <= 0

\* the size check of render
Rejected(width, height) == width <= 0 /\ height <= 0

\* width <= 0. && height <= 0.: the Err is built, the function is left
Validate ==
    /\ pc = "validate"
    /\ calls' = Append(calls, Call("check_size", draw_data.display_size))
    /\ pc' = IF Rejected(draw_data.display_size[1], draw_data.display_size[2])
             THEN "err" ELSE "upload"
    /\ UNCHANGED <<dev, state_backup, display_size, draw_data, li, ci,
                   vtx_offset, idx_offset, result, logged, dev0, nBackup,
                   window_rect, nRestore, itemsLeft>>

\* return Err(..): the locals, state_backup among them, are dropped
ReturnErr ==
    /\ pc = "err"
    /\ result' = "Err"
    /\ state_backup' = None
    /\ draw_data' = None
    /\ calls' = <<>>
    /\ nRestore' = 0
    /\ window_rect' = None
    /\ pc' = "idle"
    /\ UNCHANGED <<dev, display_size, li, ci, vtx_offset, idx_offset, logged,
                   dev0, nBackup, itemsLeft>>

\* Buffers::set_constant_buffer and Buffers::set_buffers write GPU memory
\* behind self.buffers: the writes are kept as calls, with what they write
\* (the clip-space rectangle; the vertex and index totals of the frame)
Upload ==
    /\ pc = "upload"
    /\ LET x == draw_data.display_pos[1]
           y == draw_data.display_pos[2]
           width == draw_data.display_size[1]
           height == draw_data.display_size[2]
           lists == draw_data.lists
       IN calls' = calls \o
              <<Call("set_constant_buffer", <<x, y, x + width, y + height>>),
                Call("set_buffers", <<SumVtx(lists, Len(lists)),
                                      SumIdx(lists, Len(lists))>>)>>
    /\ pc' = "bind"
    /\ UNCHANGED <<dev, state_backup, display_size, draw_data, li, ci,
                   vtx_offset, idx_offset, result, logged, dev0, nBackup,
                   window_rect, nRestore, itemsLeft>>

\* faulty variant: the offsets are not set to zero before the loops
BindKeepsOffsets ==
    /\ pc = "bind"
    /\ dev' = [dev EXCEPT !.vertex_buffer = "overlay",
                          !.index_buffer = "overlay",
                          !.topology = "trianglelist",
                          !.vs_cbuffer = "overlay",
                          !.ps_srv = tex_view]
    /\ calls' = calls \o
           <<Call("IASetVertexBuffers", <<>>), Call("IASetIndexBuffer", <<>>),
             Call("IASetPrimitiveTopology", <<>>),
             Call("VSSetConstantBuffers", <<>>),
             Call("PSSetShaderResources", <<>>)>>
    /\ li' = 1 /\ ci' = 1
    /\ pc' = "loop"
    /\ UNCHANGED <<state_backup, display_size, draw_data, result, vtx_offset,
                   idx_offset, logged, dev0, nBackup, window_rect, nRestore,
                   itemsLeft>>

\* the five bindings, then vtx_offset = 0, idx_offset = 0 and the loop entry
Bind ==
    /\ pc = "bind"
    /\ dev' = [dev EXCEPT !.vertex_buffer = "overlay",
                          !.index_buffer = "overlay",
                          !.topology = "trianglelist",
                          !.vs_cbuffer = "overlay",
                          !.ps_srv = tex_view]
    /\ calls' = calls \o
           <<Call("IASetVertexBuffers", <<>>), Call("IASetIndexBuffer", <<>>),
             Call("IASetPrimitiveTopology", <<>>),
             Call("VSSetConstantBuffers", <<>>),
             Call("PSSetShaderResources", <<>>)>>
    /\ vtx_offset' = 0
    /\ idx_offset' = 0
    /\ li' = 1 /\ ci' = 1
    /\ pc' = "loop"
    /\ UNCHANGED <<state_backup, display_size, draw_data, result, logged,
                   dev0, nBackup, window_rect, nRestore, itemsLeft>>

\* the list and the command the loops stand at
InList == pc = "loop" /\ li <= Len(draw_data.lists)
AtCmd == InList /\ ci <= Len(draw_data.lists[li].cmds)
cl == draw_data.lists[li]
cmd == cl.cmds[ci]

\* faulty variant: the cast rounds down instead of toward zero
ScissorRectFloor(clip_rect, x, y) ==
    Rect((clip_rect[1] - x) \div 2, (clip_rect[2] - y) \div 2,
         (clip_rect[3] - x) \div 2, (clip_rect[4] - y) \div 2)

\* the RECT given to RSSetScissorRects
ScissorRect(clip_rect, x, y) ==
    Rect(AsI32(clip_rect[1] - x), AsI32(clip_rect[2] - y),
         AsI32(clip_rect[3] - x), AsI32(clip_rect[4] - y))

\* faulty variant: the index offset advances in bytes of 16-bit indices
NextIdxOffsetBytes(offset, count, list) == offset + 2 * count

\* faulty variant: idx_offset = count
NextIdxOffsetAssigned(offset, count, list) == count

\* idx_offset += count
NextIdxOffset(offset, count, list) == offset + count

\* faulty variant: vtx_offset += cl.idx_buffer().len()
NextVtxOffsetByIdx(offset, list) == offset + list.idx_len

\* vtx_offset += cl.vtx_buffer().len()
NextVtxOffset(offset, list) == offset + list.vtx_len

\* faulty variant: start index and base vertex change places
DrawIndexedArgsSwapped(count, idx, vtx) == <<count, vtx, idx>>

\* DrawIndexed(count as u32, idx_offset as _, vtx_offset as _)
DrawIndexedArgs(count, idx, vtx) == <<count, idx, vtx>>

\* faulty variant: the texture of the command is bound
BoundViewOfCmd(c) == c.texture_id

\* set_shader_resources(self.texture.tex_view()): the font texture, whatever
\* cmd_params.texture_id is
BoundView(c) == tex_view

DrawElements ==
    /\ AtCmd /\ cmd.kind = "Elements"
    /\ LET r == ScissorRect(cmd.clip_rect, draw_data.display_pos[1],
                            draw_data.display_pos[2])
       IN /\ dev' = set_shader_resources([dev EXCEPT !.scissor = r],
                                          BoundView(cmd))
          /\ calls' = calls \o
                 <<Call("RSSetScissorRects",
                        <<r.left, r.top, r.right, r.bottom>>),
                   Call("set_shader_resources", <<BoundView(cmd)>>),
                   Call("DrawIndexed",
                        DrawIndexedArgs(cmd.count, idx_offset, vtx_offset))>>
    /\ idx_offset' = NextIdxOffset(idx_offset, cmd.count, cl)
    /\ ci' = ci + 1
    /\ UNCHANGED <<pc, state_backup, display_size, draw_data, li, vtx_offset,
                   result, logged, dev0, nBackup, window_rect, nRestore,
                   itemsLeft>>

\* faulty variant: the reset also rewinds the index offset
ResetStateZeroOffsets ==
    /\ AtCmd /\ cmd.kind = "ResetRenderState"
    /\ dev' = ShaderProgram_set_state(setup_state(dev, draw_data))
    /\ calls' = calls \o <<Call("setup_state", <<>>), Call("set_state", <<>>)>>
    /\ ci' = ci + 1
    /\ idx_offset' = 0
    /\ UNCHANGED <<pc, state_backup, display_size, draw_data, li, vtx_offset,
                   result, logged, dev0, nBackup, window_rect, nRestore,
                   itemsLeft>>

ResetState ==
    /\ AtCmd /\ cmd.kind = "ResetRenderState"
    /\ dev' = ShaderProgram_set_state(setup_state(dev, draw_data))
    /\ calls' = calls \o <<Call("setup_state", <<>>), Call("set_state", <<>>)>>
    /\ ci' = ci + 1
    /\ UNCHANGED <<pc, state_backup, display_size, draw_data, li, vtx_offset,
                   idx_offset, result, logged, dev0, nBackup, window_rect,
                   nRestore, itemsLeft>>

\* faulty variant: the render state is reinstalled after the callback
RawCallbackThenReset ==
    /\ AtCmd /\ cmd.kind = "RawCallback"
    /\ \E e \in CallbackEffects :
        dev' = ShaderProgram_set_state(
                   setup_state(CallbackApply(dev, e), draw_data))
    /\ calls' = calls \o <<Call("callback", <<li, ci>>),
                            Call("setup_state", <<>>), Call("set_state", <<>>)>>
    /\ ci' = ci + 1
    /\ UNCHANGED <<pc, state_backup, display_size, draw_data, li, vtx_offset,
                   idx_offset, result, logged, dev0, nBackup, window_rect,
                   nRestore, itemsLeft>>

RawCallback ==
    /\ AtCmd /\ cmd.kind = "RawCallback"
    /\ \E e \in CallbackEffects : dev' = CallbackApply(dev, e)
    /\ calls' = Append(calls, Call("callback", <<li, ci>>))
    /\ ci' = ci + 1
    /\ UNCHANGED <<pc, state_backup, display_size, draw_data, li, vtx_offset,
                   idx_offset, result, logged, dev0, nBackup, window_rect,
                   nRestore, itemsLeft>>

\* the inner loop is over: vtx_offset advances, the next list begins
EndList ==
    /\ InList /\ ci > Len(cl.cmds)
    /\ vtx_offset' = NextVtxOffset(vtx_offset, cl)
    /\ li' = li + 1
    /\ ci' = 1
    /\ UNCHANGED <<pc, dev, state_backup, display_size, draw_data, idx_offset,
                   result, logged, calls, dev0, nBackup, window_rect,
                   nRestore, itemsLeft>>

\* faulty variant: the snapshot is dropped without being applied
RestoreDropped ==
    /\ pc = "loop" /\ li > Len(draw_data.lists)
    /\ state_backup' = None
    /\ calls' = Append(calls, Call("restore", <<>>))
    /\ pc' = "ok"
    /\ UNCHANGED <<dev, display_size, draw_data, li, ci, vtx_offset,
                   idx_offset, result, logged, dev0, nBackup, window_rect,
                   nRestore, itemsLeft>>

\* state_backup.restore(..), once the outer loop is over
Restore ==
    /\ pc = "loop" /\ li > Len(draw_data.lists)
    /\ dev' = StateBackup_restore(state_backup, dev)
    /\ state_backup' = None
    /\ nRestore' = nRestore + 1
    /\ calls' = Append(calls, Call("restore", <<>>))
    /\ pc' = "ok"
    /\ UNCHANGED <<display_size, draw_data, li, ci, vtx_offset, idx_offset,
                   result, logged, dev0, nBackup, window_rect, itemsLeft>>

\* Ok(())
ReturnOk ==
    /\ pc = "ok"
    /\ result' = "Ok"
    /\ draw_data' = None
    /\ calls' = <<>>
    /\ li' = 0 /\ ci' = 0
    /\ nRestore' = 0
    /\ window_rect' = None
    /\ pc' = "idle"
    /\ UNCHANGED <<dev, state_backup, display_size, vtx_offset, idx_offset,
                   logged, dev0, nBackup, itemsLeft>>

\* ------------------------------------------------------------ present
\* faulty variant: the result of Present is unwrapped
presentUnwrap ==
    /\ pc = "idle"
    /\ \E ok \in BOOLEAN :
        /\ logged' = FALSE
        /\ result' = IF ok THEN "unit" ELSE "panic"
    /\ UNCHANGED <<pc, dev, state_backup, display_size, draw_data, li, ci,
                   vtx_offset, idx_offset, calls, dev0, nBackup, window_rect,
                   nRestore, itemsLeft>>

\* swap_chain().Present(1, 0) succeeds or fails; a failure is logged
present ==
    /\ pc = "idle"
    /\ \E ok \in BOOLEAN : logged' = ~ok
    /\ result' = "unit"
    /\ UNCHANGED <<pc, dev, state_backup, display_size, draw_data, li, ci,
                   vtx_offset, idx_offset, calls, dev0, nBackup, window_rect,
                   nRestore, itemsLeft>>

Next ==
    \/ Backup \/ Reconfigure \/ SetShaderState \/ BuildFrame \/ Validate
    \/ ReturnErr \/ Upload \/ Bind \/ DrawElements \/ ResetState
    \/ RawCallback \/ EndList \/ Restore \/ ReturnOk \/ present

Spec == Init /\ [][Next]_vars

\* -------------------------------------------------------------- claims
Ops(kind) == {i \in 1..Len(calls) : calls[i].op = kind}
Made(kind) == Ops(kind) # {}
Building == draw_data # None
Lists == draw_data.lists

\* the calls render makes from the geometry upload on
FrameOps ==
    {"set_constant_buffer", "set_buffers", "IASetVertexBuffers",
     "IASetIndexBuffer", "IASetPrimitiveTopology", "VSSetConstantBuffers",
     "PSSetShaderResources", "RSSetScissorRects", "set_shader_resources",
     "DrawIndexed", "setup_state", "callback"}

RECURSIVE CmdsOfKind(_, _, _)
\* commands of one kind in the first k lists
CmdsOfKind(lists, k, kind) ==
    IF k = 0 THEN 0
    ELSE Cardinality({i \in 1..Len(lists[k].cmds) :
                          lists[k].cmds[i].kind = kind})
         + CmdsOfKind(lists, k - 1, kind)

RECURSIVE ElemCounts(_, _)
\* sum of the counts of the first n commands of a list that are Elements
ElemCounts(cmds, n) ==
    IF n = 0 THEN 0
    ELSE (IF cmds[n].kind = "Elements" THEN cmds[n].count ELSE 0)
         + ElemCounts(cmds, n - 1)

RECURSIVE SumCounts(_, _)
\* sum of the counts of the Elements commands of the first k lists
SumCounts(lists, k) ==
    IF k = 0 THEN 0
    ELSE ElemCounts(lists[k].cmds, Len(lists[k].cmds)) + SumCounts(lists, k - 1)

\* in each of the first k lists the Elements counts sum to the index count
CountsMatch(lists, k) ==
    \A j \in 1..k : ElemCounts(lists[j].cmds, Len(lists[j].cmds)) = lists[j].idx_len

\* C1: when render returns Ok the device pipeline state equals the state
\* at the entry of that call: it does where render stands at Ok(()), and
\* the return leaves the device as it is.
C1_StatePreservedOnOk ==
    /\ pc = "ok" => dev = dev0
    /\ (pc = "idle" /\ result = "Ok") => dev = dev0

\* a render that set the viewport, drew, ran a callback that clobbered the
\* device and reset the render state, and stands restored before Ok
C1_Witness ==
    /\ pc = "ok" /\ dev = dev0
    /\ Made("set_viewport") /\ Made("DrawIndexed")
    /\ Made("callback") /\ Made("setup_state")

\* C2: where render returns, Ok or Err, the snapshot of the call has been
\* restored exactly once and the device state equals the state at the
\* entry of the call.
C2_RestoredOnEveryExit ==
    pc \in {"ok", "err"} => (nRestore = 1 /\ dev = dev0)

\* C3: a frame whose display size has both dimensions <= 0 is abandoned at
\* the size check: render stands at the Err exit and has made no
\* constant-buffer write, upload, binding, draw or command interpretation.
C3_DegenerateAbandoned ==
    (/\ Building /\ pc # "validate"
     /\ draw_data.display_size[1] <= 0 /\ draw_data.display_size[2] <= 0)
    => (pc = "err" /\ \A i \in 1..Len(calls) : calls[i].op \notin FrameOps)

\* the Err exit of a 0 x 0 frame that holds Elements and RawCallback commands
C3_Witness ==
    /\ pc = "err" /\ draw_data.display_size = <<0, 0>>
    /\ CmdsOfKind(Lists, Len(Lists), "Elements") > 0
    /\ CmdsOfKind(Lists, Len(Lists), "RawCallback") > 0
    /\ Made("set_viewport")

\* C4: render takes the Err exit exactly when width and height are both
\* <= 0; with exactly one of them <= 0 the frame goes on, and at the Ok exit
\* the geometry is uploaded and every command of the frame is interpreted.
C4_RejectIffBoth ==
    (Building /\ pc # "validate") =>
        LET w == draw_data.display_size[1]
            h == draw_data.display_size[2]
            n == Len(Lists)
        IN /\ (pc = "err") <=> (w <= 0 /\ h <= 0)
           /\ (pc = "ok" /\ ((w <= 0) # (h <= 0))) =>
                /\ Made("set_constant_buffer") /\ Made("set_buffers")
                /\ Cardinality(Ops("DrawIndexed")) = CmdsOfKind(Lists, n, "Elements")
                /\ Cardinality(Ops("setup_state")) =
                       CmdsOfKind(Lists, n, "ResetRenderState")
                /\ Cardinality(Ops("callback")) = CmdsOfKind(Lists, n, "RawCallback")

\* the Ok exit of a frame of positive width and zero height with commands
C4_Witness ==
    /\ pc = "ok"
    /\ draw_data.display_size[1] > 0 /\ draw_data.display_size[2] <= 0
    /\ Made("DrawIndexed") /\ Made("callback")

\* C5 as claimed: before list Lk is interpreted the index offset is the sum
\* of the index-buffer lengths of L1..Lk-1, whatever the commands are.
C5_IdxOffsetIsIndexCounts ==
    (InList /\ ci = 1) => idx_offset = SumIdx(Lists, li - 1)

\* C5 amended: before list Lk is interpreted the index offset is the sum of
\* the counts of the Elements commands of L1..Lk-1; it is the sum of their
\* index-buffer lengths when in each of them the counts sum to that length.
C5_IdxOffsetIsElementCounts ==
    (InList /\ ci = 1) =>
        /\ idx_offset = SumCounts(Lists, li - 1)
        /\ CountsMatch(Lists, li - 1) => idx_offset = SumIdx(Lists, li - 1)

\* the second list is about to be interpreted after a first list whose
\* only Elements command covers half of its six indices
C5_Witness ==
    /\ InList /\ ci = 1 /\ li = 2
    /\ idx_offset = 3 /\ Lists[1].idx_len = 6

\* C6: while list Lk is interpreted, from before its first command to after
\* its last, the vertex offset is the sum of the vertex counts of L1..Lk-1.
C6_VtxOffsetIsVertexCounts ==
    pc = "loop" => vtx_offset = SumVtx(Lists, li - 1)

\* inside the second list, after a first list without an Elements command
C6_Witness ==
    /\ InList /\ li = 2 /\ ci = 2
    /\ CmdsOfKind(Lists, 1, "Elements") = 0
    /\ Len(Lists[1].cmds) > 0
    /\ vtx_offset = Lists[1].vtx_len /\ vtx_offset > 0

\* the integer a value in half units truncates to, toward zero
TowardZero(v) ==
    IF v >= 0 THEN (v - (v % 2)) \div 2 ELSE -(((-v) - ((-v) % 2)) \div 2)

\* C7: once an Elements command with clip rect [cx, cy, cw, ch] has been
\* interpreted in a frame at display position [x, y], the scissor rectangle
\* on the device is cx-x, cy-y, cw-x, ch-y, each truncated toward zero.
C7_ScissorIsTranslatedClip ==
    (InList /\ ci > 1 /\ cl.cmds[ci - 1].kind = "Elements") =>
        LET c == cl.cmds[ci - 1].clip_rect
            x == draw_data.display_pos[1]
            y == draw_data.display_pos[2]
        IN dev.scissor = Rect(TowardZero(c[1] - x), TowardZero(c[2] - y),
                              TowardZero(c[3] - x), TowardZero(c[4] - y))

\* clip rect [10.5, -3.5, 50.5, 40.5] at display position [1.5, 20]:
\* top is -23.5, which truncates to -23
C7_Witness ==
    /\ InList /\ ci > 1 /\ cl.cmds[ci - 1].kind = "Elements"
    /\ cl.cmds[ci - 1].clip_rect = ClipB
    /\ draw_data.display_pos = <<3, 40>>
    /\ dev.scissor = Rect(9, -23, 49, 20)

RECURSIVE FlatCmds(_, _)
\* the commands of the first k lists in frame order, each with its list
FlatCmds(lists, k) ==
    IF k = 0 THEN <<>>
    ELSE FlatCmds(lists, k - 1) \o
         [i \in 1..Len(lists[k].cmds) |-> [l |-> k, c |-> lists[k].cmds[i]]]

IsElements(e) == e.c.kind = "Elements"

RECURSIVE CountsBefore(_, _)
CountsBefore(es, i) ==
    IF i <= 1 THEN 0 ELSE es[i - 1].c.count + CountsBefore(es, i - 1)

\* the indexed draws a frame asks for: one per Elements command
ExpectedDraws(lists) ==
    LET es == SelectSeq(FlatCmds(lists, Len(lists)), IsElements)
    IN [i \in 1..Len(es) |->
           <<es[i].c.count, CountsBefore(es, i), SumVtx(lists, es[i].l - 1)>>]

IsDraw(c) == c.op = "DrawIndexed"
Draws == LET ds == SelectSeq(calls, IsDraw) IN [i \in 1..Len(ds) |-> ds[i].args]

TwoQuads ==
    LET q == [vtx_len |-> 4, idx_len |-> 6,
              cmds |-> <<Elements(6, ClipA, "font")>>]
    IN <<q, q>>

\* C8: the indexed draws made so far are the first ones of the sequence
\* with one draw per Elements command in frame order, each with its count,
\* the sum of the earlier Elements counts of the frame as start index and
\* the sum of the earlier lists' vertex counts as base vertex; at the Ok
\* exit they are the whole sequence. Two lists of 4 vertices and 6 indices
\* with one Elements of 6 each give (6,0,0) and (6,6,4).
C8_DrawSequence ==
    (Building /\ pc \in {"loop", "ok"}) =>
        LET want == ExpectedDraws(Lists)
        IN /\ Len(Draws) <= Len(want)
           /\ Draws = SubSeq(want, 1, Len(Draws))
           /\ pc = "ok" => Draws = want
           /\ (pc = "ok" /\ Lists = TwoQuads) => Draws = <<<<6, 0, 0>>, <<6, 6, 4>>>>

C8_Witness ==
    pc = "ok" /\ Lists = TwoQuads /\ Draws = <<<<6, 0, 0>>, <<6, 6, 4>>>>

\* the calls of render up to the loop, with and without a window rectangle
Preamble(reconfigured) ==
    <<"backup", "get_window_rect">> \o
    (IF reconfigured THEN <<"set_viewport", "set_render_target">> ELSE <<>>) \o
    <<"set_state", "frame", "f", "ui_render", "check_size",
      "set_constant_buffer", "set_buffers", "IASetVertexBuffers",
      "IASetIndexBuffer", "IASetPrimitiveTopology", "VSSetConstantBuffers",
      "PSSetShaderResources">>

LoopOps ==
    {"RSSetScissorRects", "set_shader_resources", "DrawIndexed",
     "setup_state", "set_state", "callback"}

\* C9: the calls a render has made are, in this order: the snapshot, the
\* window rectangle query, the viewport and render target (only with a
\* window rectangle), the shader state, the frame build, the size check,
\* the constant-buffer write and upload, the five bindings, the calls of
\* the command loop, the restore. The snapshot is the first call and
\* nothing follows the restore.
C9_ProtocolOrder ==
    /\ pc = "idle" => calls = <<>>
    /\ pc # "idle" =>
        \E reconfigured \in BOOLEAN :
            LET pre == Preamble(reconfigured)
                n == Len(calls)
                m == Len(pre)
            IN /\ n >= 1
               /\ \A i \in 1..n :
                    /\ i <= m => calls[i].op = pre[i]
                    /\ i > m => \/ calls[i].op \in LoopOps
                                \/ i = n /\ calls[i].op = "restore"
               /\ pc = "ok" <=> calls[n].op = "restore"
               /\ pc = "ok" => n > m

\* a restored render that reconfigured the surface and ran all three
\* kinds of command
C9_Witness ==
    /\ pc = "ok" /\ calls[Len(calls)].op = "restore"
    /\ Made("set_viewport") /\ Made("DrawIndexed") /\ Made("callback")
    /\ Made("setup_state")
    /\ Len(calls) > Len(Preamble(TRUE)) + 1

\* C10: a present step, whether Present succeeded or failed, returns the
\* unit value and leaves the position, the device pipeline state, the
\* display size, the frame and the offsets as they were.
C10_PresentNeverPropagates ==
    [][present =>
        /\ result' = "unit"
        /\ UNCHANGED <<pc, dev, state_backup, display_size, draw_data, li, ci,
                       vtx_offset, idx_offset, calls, dev0, nBackup,
                       window_rect, nRestore, itemsLeft>>]_vars

\* a present that failed and logged has returned
C10_Witness ==
    /\ pc = "idle" /\ result = "unit" /\ logged
    /\ nBackup > 0

\* the steps of render after the window rectangle query
AfterQuery == pc \notin {"idle", "rect"}
\* the steps of render after the frame build
AfterFrame == pc \in {"validate", "err", "upload", "bind", "loop", "ok"}

\* C11: when the window rectangle is unavailable the query step leaves the
\* display size and the device as they are and render goes on to the shader
\* state; the render sets neither the viewport nor the render target, and
\* it installs the shader state and builds the frame.  The display size
\* changes in no other step than a query that gave a rectangle, so it
\* keeps the value of the last such render over any number of frames.
C11_NoRectKeepsDisplaySize ==
    /\ []((AfterQuery /\ window_rect = None) =>
            /\ ~Made("set_viewport")
            /\ ~Made("set_render_target")
            /\ pc = "shader" \/ Made("set_state")
            /\ AfterFrame => Made("f"))
    /\ [][(pc = "rect" /\ pc' # "rect" /\ window_rect' = None) =>
            /\ display_size' = display_size
            /\ dev' = dev
            /\ pc' = "shader"]_vars
    /\ [][display_size' # display_size =>
            (pc = "rect" /\ window_rect' # None)]_vars

\* a render without a window rectangle has drawn and restored, with the
\* display size a former render took from an 800 x 600 window
C11_Witness ==
    /\ pc = "ok"
    /\ window_rect = None
    /\ display_size = <<F32(800), F32(600)>>
    /\ Made("DrawIndexed")

\* C12: with the window rectangle (l, t, r, b) the display size is
\* (r - l, b - t), the viewport set is (0, 0, r - l, b - t) and the render
\* target is set next, all before the frame is built; the frame built in
\* the same call has the new display size.
C12_RectSetsSizeViewportTarget ==
    (AfterQuery /\ window_rect # None) =>
        LET w == window_rect.right - window_rect.left
            h == window_rect.bottom - window_rect.top
        IN  /\ display_size = <<F32(w), F32(h)>>
            /\ Len(calls) >= 4
            /\ calls[3] = Call("set_viewport", <<0, 0, w, h>>)
            /\ calls[4] = Call("set_render_target", <<>>)
            /\ \A i \in Ops("f") : i > 4
            /\ pc = "shader" =>
                /\ dev.viewport = Rect(0, 0, w, h)
                /\ dev.render_target = "overlay"
            /\ Building => draw_data.display_size = <<F32(w), F32(h)>>

\* a frame built for an 800 x 600 window after the display size was 0 x 0
C12_Witness ==
    /\ pc = "validate"
    /\ window_rect = Rect(100, 50, 900, 650)
    /\ dev0.viewport = Rect(0, 0, 0, 0)
    /\ draw_data.display_size = <<F32(800), F32(600)>>

\* the command the inner loop has just interpreted is of this kind
JustDid(kind) == InList /\ ci > 1 /\ cl.cmds[ci - 1].kind = kind

\* a step of the inner loop over a ResetRenderState command
ResetStep == AtCmd /\ cmd.kind = "ResetRenderState" /\ ci' = ci + 1

\* C13: the step over a ResetRenderState command calls setup_state and then
\* set_state and nothing else: the device gets the viewport of the frame's
\* size, the overlay's render target and the overlay's pipeline, and keeps
\* the rest; the index and vertex offsets, the display size and the window
\* rectangle of the render are unchanged.  No render queries the window
\* rectangle more than once.
C13_ResetReinstallsStateOnly ==
    /\ [][ResetStep =>
            /\ calls' = calls \o <<Call("setup_state", <<>>),
                                   Call("set_state", <<>>)>>
            /\ dev' = [dev EXCEPT
                          !.viewport =
                              Rect(0, 0, AsI32(draw_data.display_size[1]),
                                         AsI32(draw_data.display_size[2])),
                          !.render_target = "overlay",
                          !.pipeline = "overlay"]
            /\ UNCHANGED <<idx_offset, vtx_offset, display_size, window_rect,
                           draw_data, li>>]_vars
    /\ [](Cardinality(Ops("get_window_rect")) <= 1)

\* a reset after a draw and a callback that replaced scissor, viewport and
\* pipeline: viewport and pipeline are the overlay's again, the scissor and
\* the index offset are as they were
C13_Witness ==
    /\ JustDid("ResetRenderState")
    /\ idx_offset > 0
    /\ dev.scissor = Rect(7, 7, 7, 7)
    /\ dev.viewport = Rect(0, 0, 800, 600)
    /\ dev.pipeline = "overlay"

\* a step of the inner loop over a RawCallback command
CallbackStep == AtCmd /\ cmd.kind = "RawCallback" /\ ci' = ci + 1

\* the RawCallback commands the loops have passed, as <<list, command>>
CallbacksPassed ==
    {<<l, c>> \in (1..Len(Lists)) \X (1..MaxItems) :
        /\ c <= Len(Lists[l].cmds)
        /\ Lists[l].cmds[c].kind = "RawCallback"
        /\ l < li \/ (l = li /\ c < ci)}

\* C14: the step over a RawCallback command makes one call, the callback
\* with the list and the command it stands at; the device is as the
\* callback left it and the offsets are unchanged.  The callbacks called so
\* far are those of the RawCallback commands passed, once each, in command
\* order.
C14_CallbackOnceNothingElse ==
    /\ [][CallbackStep =>
            /\ calls' = Append(calls, Call("callback", <<li, ci>>))
            /\ \E e \in CallbackEffects : dev' = CallbackApply(dev, e)
            /\ UNCHANGED <<idx_offset, vtx_offset, li, draw_data,
                           display_size>>]_vars
    /\ [](pc \in {"loop", "ok"} =>
            /\ {calls[i].args : i \in Ops("callback")} = CallbacksPassed
            /\ Cardinality(Ops("callback")) = Cardinality(CallbacksPassed)
            /\ \A i, j \in Ops("callback") :
                 i < j =>
                   \/ calls[i].args[1] < calls[j].args[1]
                   \/ /\ calls[i].args[1] = calls[j].args[1]
                      /\ calls[i].args[2] < calls[j].args[2])

\* a callback after a draw has replaced the pipeline, which stays replaced
C14_Witness ==
    /\ JustDid("RawCallback")
    /\ idx_offset > 0
    /\ dev.pipeline = "callback"
    /\ calls[Len(calls)] = Call("callback", <<li, ci - 1>>)

\* C15: a render has not called the callback f before the frame build and
\* has called it exactly once from there on, the Err exit included: after a
\* set_state, right after the frame was begun, and before the size check.
\* present leaves no call of f behind.
C15_FrameBuiltOncePerRender ==
    /\ ~AfterFrame => ~Made("f")
    /\ AfterFrame =>
        /\ Cardinality(Ops("f")) = 1
        /\ \A i \in Ops("f") :
            /\ \E j \in Ops("set_state") : j < i
            /\ calls[i - 1].op = "frame"
            /\ \A j \in Ops("check_size") : i < j
        /\ pc # "validate" => Cardinality(Ops("check_size")) = 1
    /\ result = "unit" => ~Made("f")

\* the second render stands at the Err exit and has called f once
C15_Witness ==
    /\ pc = "err"
    /\ nBackup = 2
    /\ Cardinality(Ops("f")) = 1

\* the list of the first Elements command of the frame
FirstElementsList ==
    SelectSeq(FlatCmds(Lists, Len(Lists)), IsElements)[1].l

\* C16 as claimed: the loops of every render start with both offsets at
\* zero, and the first indexed draw of a render has start index 0 and base
\* vertex 0.
C16_FirstDrawAtZeroZero ==
    /\ (pc = "loop" /\ li = 1 /\ ci = 1) =>
            (idx_offset = 0 /\ vtx_offset = 0)
    /\ Draws # <<>> => (Draws[1][2] = 0 /\ Draws[1][3] = 0)

\* C16 amended: the loops of every render start with both offsets at zero;
\* the first indexed draw of a render has start index 0, and as base vertex
\* the vertex total of the lists before the list of its command, which is 0
\* when the command is in the first list.
C16_OffsetsStartAtZero ==
    /\ (pc = "loop" /\ li = 1 /\ ci = 1) =>
            (idx_offset = 0 /\ vtx_offset = 0)
    /\ Draws # <<>> =>
        /\ Draws[1][2] = 0
        /\ Draws[1][3] = SumVtx(Lists, FirstElementsList - 1)
        /\ FirstElementsList = 1 => Draws[1][3] = 0

\* the first draw of the second render is for a command of the second
\* list, after a first list of 4 vertices
C16_Witness ==
    /\ nBackup = 2
    /\ Draws # <<>>
    /\ Draws[1][2] = 0
    /\ Draws[1][3] = 4

\* C17: in a frame where the Elements counts of every list sum to the
\* index count of the list, the draw just made for a command of list Lk
\* reads indices from its start index to start index + count inside the
\* segment of Lk in the concatenated index buffer, and its base vertex is
\* the start of the segment of Lk in the concatenated vertex buffer.
C17_DrawsInsideOwnSegment ==
    (JustDid("Elements") /\ CountsMatch(Lists, Len(Lists))) =>
        LET d == calls[Len(calls)]
        IN  /\ d.op = "DrawIndexed"
            /\ d.args[1] = cl.cmds[ci - 1].count
            /\ d.args[2] >= SumIdx(Lists, li - 1)
            /\ d.args[2] + d.args[1] <= SumIdx(Lists, li)
            /\ d.args[3] = SumVtx(Lists, li - 1)

\* the draw of 6 indices for the second list, of 6 indices, after a first
\* list of 3 vertices and no index
C17_Witness ==
    /\ JustDid("Elements")
    /\ CountsMatch(Lists, Len(Lists))
    /\ li = 2
    /\ Lists[1].vtx_len = 3
    /\ calls[Len(calls)] = Call("DrawIndexed", <<6, 0, 3>>)

\* C18: every indexed draw comes right after a bind of the font texture,
\* which comes right after a scissor call; when an Elements command has
\* just been interpreted, that scissor call had the translated clip
\* rectangle of the command, and the device has that scissor rectangle and
\* the font texture, whatever the texture of the command is and whatever a
\* callback did before.
C18_ScissorFontThenDraw ==
    /\ \A i \in Ops("DrawIndexed") :
        /\ i > 2
        /\ calls[i - 1] = Call("set_shader_resources", <<tex_view>>)
        /\ calls[i - 2].op = "RSSetScissorRects"
    /\ JustDid("Elements") =>
        LET c == cl.cmds[ci - 1].clip_rect
            x == draw_data.display_pos[1]
            y == draw_data.display_pos[2]
            r == Rect(TowardZero(c[1] - x), TowardZero(c[2] - y),
                      TowardZero(c[3] - x), TowardZero(c[4] - y))
            n == Len(calls)
        IN  /\ calls[n].op = "DrawIndexed"
            /\ calls[n - 2].args = <<r.left, r.top, r.right, r.bottom>>
            /\ dev.scissor = r
            /\ dev.ps_srv = tex_view

\* a draw for a command with another texture, after a callback that
\* replaced scissor, texture and pipeline: the pipeline is still replaced
C18_Witness ==
    /\ JustDid("Elements")
    /\ cl.cmds[ci - 1].texture_id = "other"
    /\ ci > 2 /\ cl.cmds[ci - 2].kind = "RawCallback"
    /\ dev.pipeline = "callback"
    /\ dev.ps_srv = "font"
    /\ dev.scissor # Rect(7, 7, 7, 7)

====
